---- MODULE Spec2Model ----
(***************************************************************************)
(* Model of components/bluetooth-sink-switch/bt-sink-switch.py: one        *)
(* invocation of bt_switch after another against a media player (mpc),     *)
(* a Bluetooth stack (bluetoothctl) and GPIO lines (gpiofind / gpioset).   *)
(* Every external call of the script is one step; the calls of the current *)
(* invocation are recorded, in order, in `calls'.                          *)
(***************************************************************************)
EXTENDS Integers, Sequences, FiniteSets, TLC

\* ---------------------------------------------------------------- bounds
MaxDevices == 2         \* at most this many lines in "bluetoothctl devices"

\* ------------------------------------------------------ program constants
BlinkCycles == 3        \* for i in range(0, 3)
SettleMs    == 100      \* time.sleep(0.1)
BlinkMs     == 250      \* sleeptime = 0.25

Commands  == {"toggle", "speakers", "headphones", "toggle2", "headphones2"}
CmdInputs == Commands \cup {"foo"}
Outputs   == {1, 2, 3}
Devices   == {1, 2}     \* the known Bluetooth devices

\* A LED slot is a sequence of strings: None is the empty one, a configured
\* pin is <<name>>, a resolved line is <<chip, line>>.
None     == << >>
LedNames == << <<"GPIO27">>, <<"GPIO17">> >>
LedLines == << <<"gpiochip0", "27">>, <<"gpiochip0", "17">> >>
Slots    == 1..2

\* get_led_pin_config: each slot is the configured name, or None
LedPinConfigs == { <<a, b>> : a \in {None, LedNames[1]}, b \in {None, LedNames[2]} }

Call(op, a, b) == [op |-> op, a |-> a, b |-> b]

VARIABLES
    pc,             \* position of the script
    cmd,            \* bt_switch argument
    cfg_led_pin,    \* bt_switch argument led_pins, as passed by the caller
    led_pins,       \* led_pins after line 166 (built slot by slot)
    isOutput2On, isOutput3On, isBtConnected,   \* locals of bt_switch
    output_id,      \* argument of bt_switch_to, 0 before it is called
    led_states,     \* argument of bt_leds
    i,              \* blink loop counter
    ledIdx,         \* loop index of bt_leds
    ledRet,         \* where bt_leds returns to
    lines,          \* bt_connect_all: the lines of "bluetoothctl devices"
    lineIdx,        \* bt_connect_all: the line the loop is at
    mpcerr,         \* bt_check_mpc_err: the status matched "ERROR:.*output"
    enabled,        \* player: set of enabled outputs
    btConnected,    \* Bluetooth stack: some device is connected
    led,            \* GPIO: level of each LED line
    calls,          \* external calls of this invocation, in order
    honoured,       \* the player executed every enable command so far
    startEnabled, startBt, startLed,  \* environment when the invocation began
    argsOk,         \* __main__: 2 <= len(sys.argv) <= 3
    usage,          \* bt_usage has printed the usage text
    run,            \* 1, or 2 when the script was called again with the same arguments
    prevTarget      \* output_id at the end of run 1, in run 2

locals == <<cmd, cfg_led_pin, led_pins, isOutput2On, isOutput3On, isBtConnected,
            output_id, led_states, i, ledIdx, ledRet, lines, lineIdx, mpcerr>>
env    == <<enabled, btConnected, led>>
start  == <<startEnabled, startBt, startLed, argsOk, usage, run, prevTarget>>
vars   == <<pc, locals, env, calls, honoured, start>>

Log(c) == calls' = Append(calls, c)

\* ------------------------------------------------------------- parsing
\* "mpc outputs": one line per output; a failing call prints nothing usable
OutputsListing(en) == [k \in 1..3 |-> [id |-> k, on |-> k \in en]]

\* re.search(b"Output N.*enabled", stdout)
ParseOutputOn(reply, n) ==
    \E j \in 1..Len(reply) : reply[j].id = n /\ reply[j].on

\* "bluetoothctl info"
BtInfoReply(ok, conn) ==
    IF ~ok THEN << "Missing device address argument" >>
    ELSE IF conn THEN << "Name: headset", "Connected: yes" >>
    ELSE << "Name: headset", "Connected: no" >>

\* re.search(b"Connected:\s+yes", stdout)
ParseConnected(reply) ==
    \E j \in 1..Len(reply) : reply[j] = "Connected: yes"

\* ------------------------------------------------------------- decisions
\* line 161
ValidCommand(c) ==
    ~(c # "toggle" /\ c # "speakers" /\ c # "headphones"
      /\ c # "toggle2" /\ c # "headphones2")

\* line 175 without "and not isOutput2On"
WantsOutput2_IgnoresState(c, o2) == (c = "toggle") \/ (c = "headphones")

\* line 175
WantsOutput2(c, o2) == (c = "toggle" /\ ~o2) \/ (c = "headphones")

\* line 202 with "and not isOutput3On" applied to headphones2 as well
WantsOutput3_StateForBoth(c, o3) == (c = "toggle2" \/ c = "headphones2") /\ ~o3

\* line 202
WantsOutput3(c, o3) == (c = "toggle2" /\ ~o3) \/ (c = "headphones2")

\* bt_find_led_pin: the line of the pin, None when gpiofind fails
bt_find_led_pin(k, found) == IF found THEN LedLines[k] ELSE None

\* ------------------------------------------------------------- calls
\* call bt_leds(led_pins, states) and continue at ret
CallLeds(states, ret) ==
    /\ led_states' = states
    /\ ledIdx' = 1
    /\ ledRet' = ret
    /\ pc' = "bt_led"

\* call bt_switch_to(n, led_pins, states): line 63..67 print only
SwitchTo(n, states) ==
    /\ output_id' = n
    /\ led_states' = states
    /\ pc' = "mpc_enable"

TypeOK ==
    /\ pc \in {"idle", "check", "resolve", "mpc_outputs", "bt_info", "bt_devices",
               "bt_connect", "blink_sleep1", "blink_sleep2", "mpc_enable",
               "settle", "mpc_enable_only", "player_enable", "mpc_status", "mpc_play", "bt_led",
               "done", "crashed", "exit"}
    /\ cmd \in CmdInputs
    /\ cfg_led_pin \in LedPinConfigs
    /\ Len(led_pins) <= 2
    /\ output_id \in 0..3
    /\ enabled \subseteq Outputs
    /\ i \in 0..BlinkCycles
    /\ ledIdx \in 1..3
    /\ lineIdx \in 1..(Len(lines) + 1)
    /\ run \in 1..2
    /\ prevTarget \in 0..3

Init ==
    /\ pc = "idle"
    /\ cmd = "speakers"
    /\ cfg_led_pin = <<None, None>>
    /\ led_pins = << >>
    /\ isOutput2On = FALSE /\ isOutput3On = FALSE /\ isBtConnected = FALSE
    /\ output_id = 0
    /\ led_states = <<FALSE, FALSE>>
    /\ i = 0 /\ ledIdx = 1 /\ ledRet = "return"
    /\ lines = << >> /\ lineIdx = 1
    /\ mpcerr = FALSE
    /\ enabled \in SUBSET Outputs
    /\ btConnected \in BOOLEAN
    /\ led \in [Slots -> {0, 1}]
    /\ calls = << >>
    /\ honoured = TRUE
    /\ startEnabled = enabled /\ startBt = btConnected /\ startLed = led
    /\ argsOk = TRUE /\ usage = FALSE
    /\ run = 1 /\ prevTarget = 0

\* The script is started with one command argument, or with a command and the
\* debug argument, which only sets the log level (lines 256-261):
\* bt_switch(c, p) is entered
Invoke(c, p) ==
    /\ pc \in {"idle", "done", "crashed", "exit"}
    /\ pc' = "check"
    /\ argsOk' = TRUE /\ usage' = FALSE
    /\ run' = 1 /\ prevTarget' = 0
    /\ cmd' = c
    /\ cfg_led_pin' = p
    /\ led_pins' = << >>
    /\ isOutput2On' = FALSE /\ isOutput3On' = FALSE /\ isBtConnected' = FALSE
    /\ output_id' = 0
    /\ led_states' = <<FALSE, FALSE>>
    /\ i' = 0 /\ ledIdx' = 1 /\ ledRet' = "return"
    /\ lines' = << >> /\ lineIdx' = 1
    /\ mpcerr' = FALSE
    /\ calls' = << >>
    /\ honoured' = TRUE
    /\ startEnabled' = enabled /\ startBt' = btConnected /\ startLed' = led
    /\ UNCHANGED env

\* The script is started a second time with the arguments and the LED
\* configuration of the invocation that has just ended, and nothing but that
\* invocation has touched the player or the Bluetooth stack since.
Reinvoke ==
    /\ pc \in {"done", "crashed"}
    /\ argsOk /\ run = 1
    /\ pc' = "check"
    /\ run' = 2 /\ prevTarget' = output_id
    /\ led_pins' = << >>
    /\ isOutput2On' = FALSE /\ isOutput3On' = FALSE /\ isBtConnected' = FALSE
    /\ output_id' = 0
    /\ led_states' = <<FALSE, FALSE>>
    /\ i' = 0 /\ ledIdx' = 1 /\ ledRet' = "return"
    /\ lines' = << >> /\ lineIdx' = 1
    /\ mpcerr' = FALSE
    /\ calls' = << >>
    /\ honoured' = TRUE
    /\ startEnabled' = enabled /\ startBt' = btConnected /\ startLed' = led
    /\ UNCHANGED <<cmd, cfg_led_pin, argsOk, usage, env>>

\* lines 262-263 without the call of bt_usage
MainUsage_NoPrint ==
    /\ pc \in {"idle", "done", "crashed", "exit"}
    /\ pc' = "exit"
    /\ argsOk' = FALSE /\ usage' = FALSE
    /\ run' = 1 /\ prevTarget' = 0
    /\ led_pins' = << >>
    /\ isOutput2On' = FALSE /\ isOutput3On' = FALSE /\ isBtConnected' = FALSE
    /\ output_id' = 0
    /\ led_states' = <<FALSE, FALSE>>
    /\ i' = 0 /\ ledIdx' = 1 /\ ledRet' = "return"
    /\ lines' = << >> /\ lineIdx' = 1
    /\ mpcerr' = FALSE
    /\ calls' = << >>
    /\ honoured' = TRUE
    /\ startEnabled' = enabled /\ startBt' = btConnected /\ startLed' = led
    /\ UNCHANGED <<cmd, cfg_led_pin, env>>

\* The script is started with no argument or with more than two (lines 259,
\* 262-263): bt_usage prints the usage text and the script exits.
MainUsage ==
    /\ pc \in {"idle", "done", "crashed", "exit"}
    /\ pc' = "exit"
    /\ argsOk' = FALSE /\ usage' = TRUE
    /\ run' = 1 /\ prevTarget' = 0
    /\ led_pins' = << >>
    /\ isOutput2On' = FALSE /\ isOutput3On' = FALSE /\ isBtConnected' = FALSE
    /\ output_id' = 0
    /\ led_states' = <<FALSE, FALSE>>
    /\ i' = 0 /\ ledIdx' = 1 /\ ledRet' = "return"
    /\ lines' = << >> /\ lineIdx' = 1
    /\ mpcerr' = FALSE
    /\ calls' = << >>
    /\ honoured' = TRUE
    /\ startEnabled' = enabled /\ startBt' = btConnected /\ startLed' = led
    /\ UNCHANGED <<cmd, cfg_led_pin, env>>

\* lines 160-163 without the return of line 163
CheckCommand_NoReturn ==
    /\ pc = "check"
    /\ pc' = "resolve"
    /\ UNCHANGED <<locals, env, calls, honoured, start>>

\* lines 160-163
CheckCommand ==
    /\ pc = "check"
    /\ pc' = IF ValidCommand(cmd) THEN "resolve" ELSE "done"
    /\ UNCHANGED <<locals, env, calls, honoured, start>>

\* line 166, one element of the list comprehension: bt_find_led_pin(led_pin).
\* subprocess.run(["gpiofind", None]) raises TypeError before any process is
\* started; nothing in bt_switch catches it.
FindLedPin ==
    /\ pc = "resolve"
    /\ LET k == Len(led_pins) + 1 IN
       IF cfg_led_pin[k] = None
       THEN /\ pc' = "crashed"
            /\ UNCHANGED <<locals, env, calls, honoured, start>>
       ELSE \E found \in BOOLEAN :
            /\ Log(Call("gpiofind", k, 0))
            /\ led_pins' = Append(led_pins, bt_find_led_pin(k, found))
            /\ pc' = IF k = Len(cfg_led_pin) THEN "mpc_outputs" ELSE "resolve"
            /\ UNCHANGED <<cmd, cfg_led_pin, isOutput2On, isOutput3On, isBtConnected,
                           output_id, led_states, i, ledIdx, ledRet, lines, lineIdx, mpcerr,
                           env, honoured, start>>

\* lines 169-175, 202-208: query the outputs, then branch
MpcOutputs ==
    /\ pc = "mpc_outputs"
    /\ \E ok \in BOOLEAN :
       LET reply == IF ok THEN OutputsListing(enabled) ELSE << >>
           o2 == ParseOutputOn(reply, 2)
           o3 == ParseOutputOn(reply, 3)
       IN /\ isOutput2On' = o2
          /\ isOutput3On' = o3
          /\ Log(Call("mpc_outputs", 0, 0))
          /\ IF WantsOutput2(cmd, o2)
             THEN /\ pc' = "bt_info"
                  /\ UNCHANGED <<output_id, led_states>>
             ELSE IF WantsOutput3(cmd, o3)
             THEN SwitchTo(3, <<FALSE, TRUE>>)
             ELSE SwitchTo(1, <<FALSE, FALSE>>)
    /\ UNCHANGED <<cmd, cfg_led_pin, led_pins, isBtConnected, i, ledIdx, ledRet,
                   lines, lineIdx, mpcerr, env, honoured, start>>

\* lines 183-194
BtInfo ==
    /\ pc = "bt_info"
    /\ \E ok \in BOOLEAN :
       LET conn == ParseConnected(BtInfoReply(ok, btConnected)) IN
       /\ isBtConnected' = conn
       /\ Log(Call("bt_info", 0, 0))
       /\ IF conn
          THEN SwitchTo(2, <<TRUE, FALSE>>)
          ELSE /\ pc' = "bt_devices"
               /\ UNCHANGED <<output_id, led_states>>
    /\ UNCHANGED <<cmd, cfg_led_pin, led_pins, isOutput2On, isOutput3On, i, ledIdx,
                   ledRet, lines, lineIdx, mpcerr, env, honoured, start>>

\* the blink loop of lines 196-201 is entered
EnterBlink ==
    /\ i' = 0
    /\ CallLeds(<<TRUE, FALSE>>, "blink_sleep1")

\* bt_connect_all, lines 94-96: list the known devices. A line is 0 when it
\* does not match "^Device ([0-9A-F:]*) ", else the device it names. The
\* output is decoded with .decode("utf-8"), which raises UnicodeDecodeError on
\* bytes that are not UTF-8; nothing catches it.
BtDevices ==
    /\ pc = "bt_devices"
    /\ Log(Call("bt_devices", 0, 0))
    /\ \/ /\ pc' = "crashed"
          /\ UNCHANGED <<lines, lineIdx>>
       \/ \E n \in 0..MaxDevices : \E ls \in [1..n -> {0} \cup Devices] :
          /\ lines' = ls
          /\ lineIdx' = 1
          /\ pc' = "bt_connect"
    /\ UNCHANGED <<cmd, cfg_led_pin, led_pins, isOutput2On, isOutput3On,
                   isBtConnected, output_id, led_states, i, ledIdx, ledRet,
                   mpcerr, env, honoured, start>>

\* bt_connect_all, lines 96-102: one iteration of the loop
BtConnect ==
    /\ pc = "bt_connect"
    /\ lineIdx <= Len(lines)
    /\ LET line == lines[lineIdx] IN
       IF line = 0
       THEN UNCHANGED <<calls, btConnected>>
       ELSE /\ Log(Call("bt_connect", line, 0))
            /\ \E ok \in BOOLEAN : btConnected' = (btConnected \/ ok)
    /\ lineIdx' = lineIdx + 1
    /\ UNCHANGED <<pc, cmd, cfg_led_pin, led_pins, isOutput2On, isOutput3On,
                   isBtConnected, output_id, led_states, i, ledIdx, ledRet, lines,
                   mpcerr, enabled, led, honoured, start>>

\* the loop of bt_connect_all is over and it returns (line 194); the blink
\* loop of lines 196-198 is entered
BtConnectAllReturn ==
    /\ pc = "bt_connect"
    /\ lineIdx > Len(lines)
    /\ lines' = << >> /\ lineIdx' = 1
    /\ EnterBlink
    /\ UNCHANGED <<cmd, cfg_led_pin, led_pins, isOutput2On, isOutput3On,
                   isBtConnected, output_id, mpcerr, env, calls, honoured, start>>

\* line 199
BlinkSleepOn ==
    /\ pc = "blink_sleep1"
    /\ Log(Call("sleep", BlinkMs, 0))
    /\ CallLeds(<<FALSE, FALSE>>, "blink_sleep2")
    /\ UNCHANGED <<cmd, cfg_led_pin, led_pins, isOutput2On, isOutput3On,
                   isBtConnected, output_id, i, lines, lineIdx, mpcerr, env, honoured, start>>

\* line 201, then the next iteration or line 208
BlinkSleepOff ==
    /\ pc = "blink_sleep2"
    /\ Log(Call("sleep", BlinkMs, 0))
    /\ i' = i + 1
    /\ IF i + 1 < BlinkCycles
       THEN /\ CallLeds(<<TRUE, FALSE>>, "blink_sleep1")
            /\ UNCHANGED output_id
       ELSE /\ SwitchTo(1, <<FALSE, FALSE>>)
            /\ UNCHANGED <<ledIdx, ledRet>>
    /\ UNCHANGED <<cmd, cfg_led_pin, led_pins, isOutput2On, isOutput3On,
                   isBtConnected, lines, lineIdx, mpcerr, env, honoured, start>>

\* bt_switch_to with bt_leds (line 79) called before the enable of line 68
MpcEnable_LedsFirst ==
    /\ pc = "mpc_enable"
    /\ calls' = calls
          \o [j \in 1..Len(SelectSeq(<<1, 2>>, LAMBDA k : led_pins[k] # None)) |->
                LET k == SelectSeq(<<1, 2>>, LAMBDA m : led_pins[m] # None)[j]
                IN Call("gpioset", k, IF led_states[k] THEN 1 ELSE 0)]
          \o << Call("mpc_enable", output_id, 0) >>
    /\ \E ok \in BOOLEAN :
       /\ enabled' = IF ok THEN enabled \cup {output_id} ELSE enabled
       /\ honoured' = (honoured /\ ok)
    /\ pc' = "settle"
    /\ UNCHANGED <<locals, btConnected, led, start>>

\* bt_switch_to without the additive enable of lines 68-70
MpcEnable_Skipped ==
    /\ pc = "mpc_enable"
    /\ pc' = "settle"
    /\ UNCHANGED <<locals, env, calls, honoured, start>>

\* lines 68-70
MpcEnable ==
    /\ pc = "mpc_enable"
    /\ Log(Call("mpc_enable", output_id, 0))
    /\ \E ok \in BOOLEAN :
       /\ enabled' = IF ok THEN enabled \cup {output_id} ELSE enabled
       /\ honoured' = (honoured /\ ok)
    /\ pc' = "settle"
    /\ UNCHANGED <<locals, btConnected, led, start>>

\* line 72
Settle ==
    /\ pc = "settle"
    /\ Log(Call("sleep", SettleMs, 0))
    /\ pc' = "mpc_enable_only"
    /\ UNCHANGED <<locals, env, honoured, start>>

\* lines 74-76: "mpc enable only N" is issued. The player first disables the
\* other outputs and then enables N (comment of lines 64-65).
MpcEnableOnly ==
    /\ pc = "mpc_enable_only"
    /\ Log(Call("mpc_enable_only", output_id, 0))
    /\ \E ok \in BOOLEAN :
       /\ enabled' = IF ok THEN enabled \cap {output_id} ELSE enabled
       /\ honoured' = (honoured /\ ok)
       /\ pc' = IF ok THEN "player_enable" ELSE "mpc_status"
    /\ UNCHANGED <<locals, btConnected, led, start>>

\* lines 74-76, the player's second step: output N is enabled and the call
\* returns
PlayerEnable ==
    /\ pc = "player_enable"
    /\ enabled' = enabled \cup {output_id}
    /\ pc' = "mpc_status"
    /\ UNCHANGED <<locals, btConnected, led, calls, honoured, start>>

\* bt_check_mpc_err with the test of line 46 dropped: always resume
MpcStatus_AlwaysPlay ==
    /\ pc = "mpc_status"
    /\ Log(Call("mpc_status", 0, 0))
    /\ \E err \in BOOLEAN : mpcerr' = err
    /\ pc' = "mpc_play"
    /\ UNCHANGED <<cmd, cfg_led_pin, led_pins, isOutput2On, isOutput3On,
                   isBtConnected, output_id, led_states, i, ledIdx, ledRet, lines, lineIdx,
                   env, honoured, start>>

\* bt_check_mpc_err, lines 42-46, then line 79 when there is no error
MpcStatus ==
    /\ pc = "mpc_status"
    /\ Log(Call("mpc_status", 0, 0))
    /\ \E err \in BOOLEAN :
       /\ mpcerr' = err
       /\ IF err
          THEN /\ pc' = "mpc_play"
               /\ UNCHANGED <<led_states, ledIdx, ledRet>>
          ELSE CallLeds(led_states, "return")
    /\ UNCHANGED <<cmd, cfg_led_pin, led_pins, isOutput2On, isOutput3On,
                   isBtConnected, output_id, i, lines, lineIdx, env, honoured, start>>

\* bt_check_mpc_err probing again after the resume: a retry loop
MpcPlay_Retry ==
    /\ pc = "mpc_play"
    /\ Log(Call("mpc_play", 0, 0))
    /\ pc' = "mpc_status"
    /\ UNCHANGED <<locals, env, honoured, start>>

\* bt_check_mpc_err, lines 47-48, then line 79
MpcPlay ==
    /\ pc = "mpc_play"
    /\ Log(Call("mpc_play", 0, 0))
    /\ CallLeds(led_states, "return")
    /\ UNCHANGED <<cmd, cfg_led_pin, led_pins, isOutput2On, isOutput3On,
                   isBtConnected, output_id, i, lines, lineIdx, mpcerr, env, honoured, start>>

\* bt_leds with led_states[0] in place of led_states[i] in line 60
BtLed_FirstState ==
    /\ pc = "bt_led"
    /\ LET k == ledIdx
           level == IF led_states[1] THEN 1 ELSE 0
       IN /\ IF led_pins[k] = None
             THEN UNCHANGED <<calls, led>>
             ELSE /\ Log(Call("gpioset", k, level))
                  /\ \E ok \in BOOLEAN :
                     led' = IF ok THEN [led EXCEPT ![k] = level] ELSE led
          /\ ledIdx' = k + 1
          /\ pc' = IF k < Len(led_pins) THEN "bt_led"
                   ELSE IF ledRet = "return" THEN "done" ELSE ledRet
    /\ UNCHANGED <<cmd, cfg_led_pin, led_pins, isOutput2On, isOutput3On,
                   isBtConnected, output_id, led_states, i, ledRet, lines, lineIdx, mpcerr,
                   enabled, btConnected, honoured, start>>

\* bt_leds / bt_led, lines 50-60: one iteration of the loop of bt_leds
BtLed ==
    /\ pc = "bt_led"
    /\ LET k == ledIdx
           level == IF led_states[k] THEN 1 ELSE 0
       IN /\ IF led_pins[k] = None
             THEN UNCHANGED <<calls, led>>
             ELSE /\ Log(Call("gpioset", k, level))
                  /\ \E ok \in BOOLEAN :
                     led' = IF ok THEN [led EXCEPT ![k] = level] ELSE led
          /\ ledIdx' = k + 1
          /\ pc' = IF k < Len(led_pins) THEN "bt_led"
                   ELSE IF ledRet = "return" THEN "done" ELSE ledRet
    /\ UNCHANGED <<cmd, cfg_led_pin, led_pins, isOutput2On, isOutput3On,
                   isBtConnected, output_id, led_states, i, ledRet, lines, lineIdx, mpcerr,
                   enabled, btConnected, honoured, start>>

Next ==
    \/ \E c \in CmdInputs, p \in LedPinConfigs : Invoke(c, p)
    \/ MainUsage
    \/ CheckCommand
    \/ FindLedPin
    \/ MpcOutputs
    \/ BtInfo
    \/ BtDevices
    \/ BtConnect
    \/ BtConnectAllReturn
    \/ BlinkSleepOn
    \/ BlinkSleepOff
    \/ MpcEnable
    \/ Settle
    \/ MpcEnableOnly
    \/ PlayerEnable
    \/ MpcStatus
    \/ MpcPlay
    \/ BtLed

Spec == Init /\ [][Next]_vars

\* the same, where an invocation may also be repeated with the same arguments
NextRepeat ==
    \/ Next
    \/ Reinvoke

SpecRepeat == Init /\ [][NextRepeat]_vars

\* ================================================================ claims
Ended == pc \in {"done", "crashed"}

Idxs(op) == {j \in 1..Len(calls) : calls[j].op = op}
Count(op) == Cardinality(Idxs(op))
Only(ops) == SelectSeq(calls, LAMBDA c : c.op \in ops)
Without(ops) == SelectSeq(calls, LAMBDA c : c.op \notin ops)

\* level of the last gpioset call for slot k, -1 when there is none
LastLevel(k) ==
    LET S == {j \in Idxs("gpioset") : calls[j].a = k} IN
    IF S = {} THEN -1 ELSE calls[CHOOSE j \in S : \A m \in S : m <= j].b

\* the level-set calls of one bt_leds(led_pins, states), for the slots that
\* have a resolved line
Pattern(states) ==
    LET ks == SelectSeq(<<1, 2>>, LAMBDA k : k <= Len(led_pins) /\ led_pins[k] # None)
    IN [j \in 1..Len(ks) |-> Call("gpioset", ks[j], IF states[ks[j]] THEN 1 ELSE 0)]

\* the decision table of the specification, section 4.3
DecisionTable(c, o2, o3, bt) ==
    CASE c = "toggle"      -> IF ~o2 THEN (IF bt THEN 2 ELSE 1) ELSE 1
      [] c = "headphones"  -> IF bt THEN 2 ELSE 1
      [] c = "toggle2"     -> IF ~o3 THEN 3 ELSE 1
      [] c = "headphones2" -> 3
      [] c = "speakers"    -> 1
      [] OTHER             -> 0

\* the steady LED state that identifies a target
TargetLeds(n) ==
    CASE n = 1 -> <<0, 0>>
      [] n = 2 -> <<1, 0>>
      [] n = 3 -> <<0, 1>>
      [] OTHER -> <<-1, -1>>

C2_OneEnablePair ==
    (Ended /\ ValidCommand(cmd)) =>
        /\ output_id \in Outputs
        /\ Only({"mpc_enable", "mpc_enable_only"})
              = << Call("mpc_enable", output_id, 0), Call("mpc_enable_only", output_id, 0) >>
        /\ \E j \in Idxs("mpc_enable") :
              /\ j + 2 <= Len(calls)
              /\ calls[j + 1] = Call("sleep", SettleMs, 0)
              /\ calls[j + 2].op = "mpc_enable_only"

\* C3: the status is probed at most once and only after the exclusive enable;
\* once the probe is done there was exactly one, followed by exactly one resume
\* call when it matched the failure pattern and by none when it did not.
C3_OneProbeOneResume ==
    /\ Count("mpc_status") <= 1
    /\ Count("mpc_play") <= 1
    /\ \A j \in Idxs("mpc_status") : j > 1 /\ calls[j - 1].op = "mpc_enable_only"
    /\ \A j \in Idxs("mpc_play") : j > 1 /\ calls[j - 1].op = "mpc_status"
    /\ (Count("mpc_enable_only") = 1 /\ pc \in {"bt_led", "done"}) =>
          /\ Count("mpc_status") = 1
          /\ Count("mpc_play") = IF mpcerr THEN 1 ELSE 0

C3_Witness ==
    /\ pc = "done" /\ mpcerr /\ Count("mpc_play") = 1 /\ Count("mpc_status") = 1

\* C4: at the end of every invocation with a valid command in which the player
\* honoured the enable commands, the decided target is the only enabled output.
C4_ExactlyOneEnabled ==
    (Ended /\ ValidCommand(cmd) /\ honoured) =>
        /\ output_id \in Outputs
        /\ enabled = {output_id}

\* C5: with both LED slots resolved, the last level-set call of each slot in a
\* finished valid invocation gives the steady state of the target, the two
\* calls end the invocation, and the blink leaves both LEDs switched off.
C5_FinalLeds ==
    /\ (pc = "done" /\ ValidCommand(cmd) /\ led_pins = LedLines) =>
          /\ <<LastLevel(1), LastLevel(2)>> = TargetLeds(output_id)
          /\ Len(calls) >= 2
          /\ SubSeq(calls, Len(calls) - 1, Len(calls)) = Pattern(led_states)
    /\ (pc = "mpc_enable" /\ Count("bt_devices") = 1 /\ led_pins = LedLines) =>
          <<LastLevel(1), LastLevel(2)>> = <<0, 0>>

C5_Witness ==
    /\ pc = "done" /\ led_pins = LedLines /\ output_id = 3
    /\ LastLevel(1) = 0 /\ LastLevel(2) = 1

\* C6: a LED slot passed as None gets no GPIO call at all, neither gpiofind nor
\* gpioset, and the invocation still completes the switch.
C6_DisabledSlotUntouched ==
    (Ended /\ ValidCommand(cmd)) =>
        \A k \in Slots : cfg_led_pin[k] = None =>
            /\ \A j \in Idxs("gpiofind") \cup Idxs("gpioset") : calls[j].a # k
            /\ pc = "done"
            /\ Count("mpc_enable_only") = 1

\* C7: an invocation of bt_switch with an unrecognised command issues no call
\* at all and leaves the player, the Bluetooth stack and the LEDs as they were.
C7_InvalidCommandNoEffect ==
    (pc # "idle" /\ argsOk /\ ~ValidCommand(cmd)) =>
        /\ pc \in {"check", "done"}
        /\ calls = << >>
        /\ led_pins = << >> /\ output_id = 0
        /\ enabled = startEnabled /\ btConnected = startBt /\ led = startLed

C7_Witness ==
    /\ pc = "done" /\ cmd = "foo" /\ cfg_led_pin = LedNames /\ calls = << >>

\* C8: toggle with output 2 not enabled, or headphones, with Bluetooth not
\* connected: connect-all once, then 3 blink cycles (primary on / secondary
\* off, then both off), then the switch to output 1, then the LEDs (off, off).
BlinkCycle ==
    Pattern(<<TRUE, FALSE>>) \o << Call("sleep", BlinkMs, 0) >>
    \o Pattern(<<FALSE, FALSE>>) \o << Call("sleep", BlinkMs, 0) >>

C8_FallbackSequence ==
    (/\ Ended
     /\ (cmd = "headphones" \/ (cmd = "toggle" /\ 2 \notin startEnabled))
     /\ ~startBt) =>
        /\ output_id = 1
        /\ Without({"gpiofind", "mpc_outputs", "bt_info", "mpc_play"})
             = << Call("bt_devices", 0, 0) >> \o Only({"bt_connect"})
               \o BlinkCycle \o BlinkCycle \o BlinkCycle
               \o << Call("mpc_enable", 1, 0), Call("sleep", SettleMs, 0),
                     Call("mpc_enable_only", 1, 0), Call("mpc_status", 0, 0) >>
               \o Pattern(<<FALSE, FALSE>>)

\* C9: connect-all is invoked exactly once when headphones or toggle with
\* output 2 not enabled meets a Bluetooth stack that is not connected, and
\* never in an invocation that did not take the not-connected branch.
C9_ConnectAllOnlyWhenNotConnected ==
    (Ended /\ ValidCommand(cmd)) =>
        /\ ((cmd = "headphones" \/ (cmd = "toggle" /\ 2 \notin startEnabled))
            /\ ~startBt) => Count("bt_devices") = 1
        /\ Count("bt_devices") <= 1
        /\ Count("bt_devices") = 1 =>
              (WantsOutput2(cmd, isOutput2On) /\ ~isBtConnected)
        /\ Count("bt_devices") = 0 => Count("bt_connect") = 0

\* C10: toggle2 and headphones2 never probe Bluetooth nor connect; headphones2
\* always ends with target 3 and the LEDs (off, on).
C10_SecondaryBypassesBluetooth ==
    (Ended /\ cmd \in {"toggle2", "headphones2"}) =>
        /\ Count("bt_info") = 0 /\ Count("bt_devices") = 0 /\ Count("bt_connect") = 0
        /\ cmd = "headphones2" =>
              /\ output_id = 3
              /\ \A k \in Slots : (k <= Len(led_pins) /\ led_pins[k] # None) =>
                    LastLevel(k) = TargetLeds(3)[k]

\* C11 as stated: the same command twice in succession, with nothing but the
\* two invocations touching the player and the Bluetooth stack, yields the
\* same target output both times, for every command.
C11_Idempotent ==
    (run = 2 /\ Ended) => output_id = prevTarget

\* C11 amended: the same holds for the commands speakers and headphones2,
\* whose target does not depend on the probed state.
C11_IdempotentSetters ==
    (run = 2 /\ Ended /\ cmd \in {"speakers", "headphones2"}) =>
        output_id = prevTarget

C11_Witness ==
    /\ run = 2 /\ pc = "done" /\ cmd = "headphones2"
    /\ output_id = 3 /\ prevTarget = 3 /\ 3 \in startEnabled

\* C12 as stated: every LED level-set call comes after the exclusive enable
\* and the status probe, and no player or Bluetooth call follows a LED
\* level-set call.
PlayerOrBtOps ==
    {"mpc_outputs", "mpc_enable", "mpc_enable_only", "mpc_status", "mpc_play",
     "bt_info", "bt_devices", "bt_connect"}

C12_StrictlyForward ==
    \A j \in Idxs("gpioset") :
        /\ \E e \in Idxs("mpc_enable_only") : e < j
        /\ \E p \in Idxs("mpc_status") : p < j
        /\ \A m \in (j + 1)..Len(calls) : calls[m].op \notin PlayerOrBtOps

\* the stage a call belongs to: 1 LED resolution, 2 output query, 3 Bluetooth
\* probe, 4 connect-all, 5 blink, 6 switch, 7 recovery, 8 final LEDs;
\* 0 for a call that fits no stage
StageOf(j) ==
    LET op == calls[j].op
        before(o) == \E m \in Idxs(o) : m < j
    IN CASE op = "gpiofind"    -> 1
         [] op = "mpc_outputs" -> 2
         [] op = "bt_info"     -> 3
         [] op \in {"bt_devices", "bt_connect"} -> 4
         [] op = "sleep" /\ calls[j].a = BlinkMs -> 5
         [] op \in {"mpc_enable", "mpc_enable_only"} -> 6
         [] op = "sleep" /\ calls[j].a = SettleMs -> 6
         [] op \in {"mpc_status", "mpc_play"} -> 7
         [] op = "gpioset" -> IF before("mpc_status") THEN 8
                              ELSE IF before("mpc_enable") THEN 0 ELSE 5
         [] OTHER -> 0

\* C12 amended: the calls of an invocation run forward through the stages LED
\* resolution, output query, Bluetooth probe, connect-all, blink, switch,
\* recovery, final LEDs; the only LED level-set calls before the status probe
\* are those of the blink, which exists only after connect-all and ends before
\* the additive enable.
C12_ForwardExceptBlink ==
    /\ \A j \in 1..Len(calls) : StageOf(j) # 0
    /\ \A j \in 1..(Len(calls) - 1) : StageOf(j) <= StageOf(j + 1)
    /\ \A j \in 1..Len(calls) : StageOf(j) = 5 => Count("bt_devices") = 1

C12_Witness ==
    /\ pc = "done" /\ led_pins = LedLines /\ Count("bt_devices") = 1
    /\ Count("gpioset") = 4 * BlinkCycles + 2

\* C13: no failing collaborator call aborts a valid invocation: whatever the
\* replies, it returns after the additive enable, the exclusive enable, the
\* status probe and the final LED level-sets for the target decided from the
\* parsed data (stated for the invocations whose two LED pins are configured).
C13_NeverAborts ==
    (Ended /\ ValidCommand(cmd) /\ cfg_led_pin = LedNames) =>
        /\ pc = "done"
        /\ Count("mpc_enable") = 1 /\ Count("mpc_enable_only") = 1
        /\ Count("mpc_status") = 1
        /\ output_id = DecisionTable(cmd, isOutput2On, isOutput3On, isBtConnected)
        /\ Len(calls) >= Len(Pattern(led_states))
        /\ SubSeq(calls, Len(calls) - Len(Pattern(led_states)) + 1, Len(calls))
              = Pattern(led_states)

\* C14: when gpiofind fails for a slot, the slot becomes None and the
\* invocation continues: the switch is performed, the failed slot gets no
\* level-set call, and the other slot, if resolved, ends on its level.
C14_ResolutionFailureTolerated ==
    (Ended /\ ValidCommand(cmd)) =>
        \A k \in Slots : (k <= Len(led_pins) /\ led_pins[k] = None) =>
            /\ pc = "done"
            /\ Count("mpc_enable_only") = 1
            /\ \A j \in Idxs("gpioset") : calls[j].a # k
            /\ \A m \in Slots \ {k} : (m <= Len(led_pins) /\ led_pins[m] # None) =>
                  LastLevel(m) = TargetLeds(output_id)[m]

\* C15 as stated: started with an invalid command token or with a wrong number
\* of arguments, the script prints the usage text and performs no switch.
C15_UsageOnInvalid ==
    (pc \in {"done", "exit"} /\ (~argsOk \/ ~ValidCommand(cmd))) =>
        /\ usage
        /\ calls = << >>

\* C15 amended: the usage text is printed exactly when the number of arguments
\* is wrong, and then nothing else happens; an invalid command token with a
\* right number of arguments prints no usage and performs no switch either.
C15_UsageOnBadArgCount ==
    /\ usage <=> ~argsOk
    /\ ~argsOk <=> pc = "exit"
    /\ pc = "exit" =>
          /\ calls = << >> /\ output_id = 0
          /\ enabled = startEnabled /\ btConnected = startBt /\ led = startLed
    /\ (pc = "done" /\ ~ValidCommand(cmd)) =>
          /\ ~usage
          /\ calls = << >> /\ output_id = 0
          /\ enabled = startEnabled

C15_Witness ==
    /\ pc = "exit" /\ usage /\ ~argsOk /\ calls = << >> /\ enabled = {2}

\* C16: when some output is enabled at the start and the player honours the
\* enable commands, the set of enabled outputs is never empty, also between
\* the two steps of the exclusive enable.
C16_NeverZeroOutputs ==
    (startEnabled # {} /\ honoured) => enabled # {}

C16_Witness ==
    /\ pc = "player_enable" /\ honoured
    /\ startEnabled = {1} /\ output_id = 2 /\ enabled = {2}

\* a status query of this invocation was answered with something else than
\* the state it queries
ProbeFailed ==
    \/ /\ Count("mpc_outputs") = 1
       /\ ~(isOutput2On = (2 \in startEnabled) /\ isOutput3On = (3 \in startEnabled))
    \/ /\ Count("bt_info") = 1
       /\ isBtConnected # startBt

\* C17: with a player that honours the enable commands and answers the
\* queries, and with Bluetooth connected, a toggle invocation ends with output
\* 2 alone enabled when output 2 was not enabled (also when 3 was) and with
\* output 1 alone otherwise, so that successive toggles alternate 2, 1; toggle2
\* does the same with 3 and 1; with Bluetooth not connected every toggle
\* invocation ends with output 1 alone enabled.
C17_ToggleAlternates ==
    (Ended /\ honoured /\ ~ProbeFailed) =>
        /\ (cmd = "toggle" /\ startBt) =>
              enabled = {IF 2 \in startEnabled THEN 1 ELSE 2}
        /\ (cmd = "toggle2" /\ startBt) =>
              enabled = {IF 3 \in startEnabled THEN 1 ELSE 3}
        /\ (cmd = "toggle" /\ ~btConnected) => enabled = {1}
        /\ (run = 2 /\ startBt /\ cmd = "toggle" /\ startEnabled = {prevTarget}) =>
              enabled = {IF prevTarget = 2 THEN 1 ELSE 2}
        /\ (run = 2 /\ startBt /\ cmd = "toggle2" /\ startEnabled = {prevTarget}) =>
              enabled = {IF prevTarget = 3 THEN 1 ELSE 3}

\* the device ids of the lines of ls that name a device
Listed(ls) == SelectSeq(ls, LAMBDA d : d # 0)

\* C18: connect-all lists the devices once and then issues one connect attempt
\* per listed device, in listed order, whatever the earlier attempts returned;
\* connectivity is not probed again, and the invocation goes on to the blink
\* of 3 cycles and ends on output 1.
C18_ConnectAll ==
    /\ Count("bt_devices") <= 1
    /\ \A j \in Idxs("bt_connect") : j > 1 /\ calls[j-1].op \in {"bt_devices", "bt_connect"}
    /\ \A j \in Idxs("bt_devices") : \A m \in (j+1)..Len(calls) : calls[m].op # "bt_info"
    /\ pc = "bt_connect" =>
          [j \in 1..Count("bt_connect") |-> Only({"bt_connect"})[j].a]
             = Listed(SubSeq(lines, 1, lineIdx - 1))
    /\ (Ended /\ Count("bt_devices") = 1) =>
          /\ pc = "done"
          /\ output_id = 1
          /\ Cardinality({j \in Idxs("sleep") : calls[j].a = BlinkMs}) = 2 * BlinkCycles

\* C20: in every invocation with a valid command the connectivity probe is
\* issued at most once, after the output-list query, and exactly when the
\* command is headphones or it is toggle and output 2 was found not enabled;
\* for speakers and for toggle with output 2 found enabled no Bluetooth call
\* is issued.
C20_ProbeOnlyForPrimary ==
    (Ended /\ ValidCommand(cmd)) =>
        /\ Count("bt_info") <= 1
        /\ \A j \in Idxs("bt_info") : \E q \in Idxs("mpc_outputs") : q < j
        /\ Count("bt_info") = 1 <=>
              (cmd = "headphones" \/ (cmd = "toggle" /\ ~isOutput2On))
        /\ (cmd = "speakers" \/ (cmd = "toggle" /\ isOutput2On)) =>
              \A j \in 1..Len(calls) : calls[j].op \notin {"bt_info", "bt_devices", "bt_connect"}

\* the invocation is under way: bt_switch has been entered and has neither
\* returned nor raised
InInvocation == pc \notin {"idle", "done", "crashed", "exit"}

\* number of steps bt_leds still has to make
LedsLeft == Len(led_pins) + 1 - ledIdx

\* an upper bound of the number of steps the invocation can still make
Measure ==
    LET sw     == 8
        sleep2 == sw + 1 + 6 * (BlinkCycles - 1 - i)
        sleep1 == sleep2 + 3
        blink0 == sw + 6 * BlinkCycles
        conn   == blink0 + 1
        devs   == conn + MaxDevices + 1
    IN CASE pc = "bt_led" ->
              (CASE ledRet = "return"       -> 0
                 [] ledRet = "blink_sleep2" -> sleep2
                 [] ledRet = "blink_sleep1" -> sleep1) + LedsLeft
         [] pc = "mpc_play"        -> 3
         [] pc = "mpc_status"      -> 4
         [] pc = "player_enable"   -> 5
         [] pc = "mpc_enable_only" -> 6
         [] pc = "settle"          -> 7
         [] pc = "mpc_enable"      -> sw
         [] pc = "blink_sleep2"    -> sleep2
         [] pc = "blink_sleep1"    -> sleep1
         [] pc = "bt_connect"      -> conn + (Len(lines) + 1 - lineIdx)
         [] pc = "bt_devices"      -> devs
         [] pc = "bt_info"         -> devs + 1
         [] pc = "mpc_outputs"     -> devs + 2
         [] pc = "resolve"         -> devs + 3 + (Len(cfg_led_pin) - Len(led_pins))
         [] pc = "check"           -> devs + 6
         [] OTHER                  -> 0

BlinkSleeps == Cardinality({j \in Idxs("sleep") : calls[j].a = BlinkMs})

\* C19: every invocation ends: while it is under way a step is possible, and
\* every step lowers a natural-number bound of the steps left, so no loop can
\* repeat for ever; no call of the switch sequence and no query is issued
\* twice, and the blink runs BlinkCycles (3) cycles, never more, before the
\* switch that follows it.
C19_Terminates ==
    /\ [][InInvocation => Measure' < Measure]_vars
    /\ [](InInvocation => (Measure > 0 /\ ENABLED Next))
    /\ [](/\ Count("mpc_enable") <= 1 /\ Count("mpc_enable_only") <= 1
          /\ Count("mpc_status") <= 1 /\ Count("mpc_play") <= 1
          /\ Count("mpc_outputs") <= 1 /\ Count("bt_info") <= 1
          /\ Count("bt_devices") <= 1
          /\ BlinkSleeps <= 2 * BlinkCycles
          /\ (Count("bt_devices") = 1 /\ Count("mpc_enable") = 1) =>
                BlinkSleeps = 2 * BlinkCycles
          /\ Count("bt_devices") = 0 => BlinkSleeps = 0)

C19_Witness ==
    /\ pc = "done" /\ cmd = "toggle"
    /\ Count("bt_connect") = MaxDevices
    /\ BlinkSleeps = 2 * BlinkCycles
    /\ Count("mpc_enable") = 1 /\ Count("mpc_play") = 1

====
